---------------------------- MODULE Spec2Model ----------------------------
(***************************************************************************)
(* Model of the three programs of the repository:                          *)
(*   - sm-bbox-annotation-plot.ipynb : the annotation plotting cell        *)
(*   - awscli-scripts/smnb-start     : parse_args of the shell launcher    *)
(*   - the script-mode notebook      : the "Create Model" cell             *)
(* Each program has its own initial predicate, next-state relation and     *)
(* specification over the shared variable list; the variables of the       *)
(* programs that are not running keep their idle values.                   *)
(***************************************************************************)
EXTENDS Integers, Sequences, FiniteSets, TLC

VARIABLES
    \* ---- plotting cell -------------------------------------------------
    pc,          \* statement the cell is about to execute
    raised,      \* name of the exception that ended the cell ("" = none)
    names,       \* module names bound in the kernel namespace
    json_files,  \* result of fs.ls(json_path)
    nrows,       \* rows requested from plt.subplots
    ncols,       \* columns requested from plt.subplots
    axShape,     \* shape of the array `ax` returned by plt.subplots
    ax,          \* the figure: cell -> [title, image]
    i,           \* loop index of enumerate(json_files)
    d,           \* the deserialized annotation of file i
    img_fname,   \* resolved image path of file i
    b,           \* the bytes fetched for the image of file i
    img,         \* the decoded image of file i
    rects,       \* rectangles drawn on img so far
    j,           \* position of the bbox loop in d['annotations']
    this_ax,     \* the grid cell selected for file i
    shown,       \* plt.show() has run
    fetched,     \* the key of the last image requested with fs.cat
    calls,       \* the calls made so far to s3fs, json, os.path, imdecode, pyplot
    inputsValid, \* every annotation and image read so far was well formed
    \* ---- smnb-start ---------------------------------------------------
    argv,            \* "$@" : the arguments still to be parsed
    AWS_CLI_OPTS,
    ALL_FOR_AWS_CLI,
    WATCH,
    NB_NAME,
    exited,          \* parse_args hit `exit 0`
    consumed,        \* the arguments shifted away so far
    \* ---- Create Model cell --------------------------------------------
    mpc,         \* statement the cell is about to execute
    bound,       \* names bound in the kernel namespace
    train_job,   \* keys of train_job['HyperParameters']
    deleteResult,\* outcome of sm_client.delete_model
    mraised,     \* exception that ended the cell ("" = none)
    printed,     \* 'Deleted pre-existing model' was printed
    env,         \* the keys of the env dictionary
    mcalls       \* the calls made so far to sm_client

plotVars == <<pc, raised, names, json_files, nrows, ncols, axShape, ax, i, d,
              img_fname, b, img, rects, j, this_ax, shown, fetched, calls,
              inputsValid>>
argVars == <<argv, AWS_CLI_OPTS, ALL_FOR_AWS_CLI, WATCH, NB_NAME, exited, consumed>>
modelVars == <<mpc, bound, train_job, deleteResult, mraised, printed, env, mcalls>>
vars == <<plotVars, argVars, modelVars>>

(***************************************************************************)
(* Bounds of the model.                                                    *)
(***************************************************************************)
MaxCount == 5
MaxBoxes == 2
MaxClassId == 4
MaxArgs == 3
MaxMsgLen == 5
MaxIndex == 100
MaxColumns == 3

(***************************************************************************)
(* Plotting cell: constants and pure helpers.                              *)
(***************************************************************************)
json_path == <<"s", "3", ":", "/", "/", "b", "/", "a", "/">>
img_path == <<"s", "3", ":", "/", "/", "b", "/", "t", "/">>

\* Image keys an annotation may name in its `file` field.
FileNames == { <<"a", ".", "j", "p", "g">>, <<"/", "x", ".", "p", "n", "g">> }

\* One bbox of the annotation format.
BBoxes == [class_id : 0..MaxClassId, left : {3}, top : {4}, width : {10}, height : {5}]

RECURSIVE SeqsUpTo(_, _)
SeqsUpTo(S, n) ==
    IF n = 0 THEN { <<>> }
    ELSE LET shorter == SeqsUpTo(S, n - 1)
         IN shorter \cup { Append(s, x) : s \in { t \in shorter : Len(t) = n - 1 }, x \in S }

AnnotationLists == SeqsUpTo(BBoxes, MaxBoxes)

\* What json.loads can return for an annotation file: a dictionary with or
\* without the `file` and `annotations` keys.
Dicts ==
    [file : FileNames, annotations : AnnotationLists]
      \cup [file : FileNames]
      \cup [annotations : AnnotationLists]

\* A file whose text json.loads rejects.
BadJson == [syntax_error |-> TRUE]

\* Contents an annotation file can hold.
JsonContents == Dicts \cup {BadJson}

\* Contents an image object can hold: a decodable raster image, bytes that
\* are no image, or no bytes at all.
ImageBytes == {"raster", "garbage", "empty"}

NoDict == [none |-> TRUE]
NoCell == <<-1, -1>>
NoImage == -1

WellFormed(content) ==
    /\ "syntax_error" \notin DOMAIN content
    /\ "file" \in DOMAIN content
    /\ "annotations" \in DOMAIN content

\* os.path.join(a, p) for POSIX paths: an absolute p discards a.
PathJoin(a, p) ==
    IF Len(p) > 0 /\ p[1] = "/" THEN p
    ELSE IF Len(a) = 0 \/ a[Len(a)] = "/" THEN a \o p
    ELSE a \o <<"/">> \o p

DigitChar(n) == <<"0", "1", "2", "3", "4", "5", "6", "7", "8", "9">>[n + 1]

RECURSIVE Decimal(_)
Decimal(n) == IF n < 10 THEN <<DigitChar(n)>>
              ELSE Append(Decimal(n \div 10), DigitChar(n % 10))

RECURSIVE PadLeft(_, _)
PadLeft(s, width) == IF Len(s) >= width THEN s ELSE PadLeft(<<"0">> \o s, width)

Format02Truncating(n) == PadLeft(Decimal(n % 100), 2)

\* f'{n:02}'
Format02(n) == PadLeft(Decimal(n), 2)

\* f'[img-{i:02}] {img_fname}'
Title(n, path) == <<"[", "i", "m", "g", "-">> \o Format02(n) \o <<"]", " ">> \o path

ColorShifted(cid) == [k \in 0..2 |-> IF k = (cid + 1) % 3 THEN 255 ELSE 0]

\* color = [0,0,0]; color[cid % 3] = 255
Color(cid) == [k \in 0..2 |-> IF k = cid % 3 THEN 255 ELSE 0]

CellOfFirstColumn(n) == <<n \div 2, 0>>

\* row, col = i//2, i%2
CellOf(n) == <<n \div 2, n % 2>>

GridRowsFloor(n) == n \div 2

\* nrows, ncols = (len(json_files)+1)//2, 2
GridRows(n) == (n + 1) \div 2
GridCols == 2

\* numpy squeeze of the (nrows, ncols) array of axes that plt.subplots
\* returns by default: the dimensions of extent 1 are dropped.
Squeeze(shape) == SelectSeq(shape, LAMBDA e : e # 1)

Cells(r, c) == (0..(r - 1)) \X (0..(c - 1))

BlankAxes == [title |-> <<>>, image |-> NoImage]

Call(op, n) == [op |-> op, idx |-> n]

Raise(exc) ==
    /\ pc' = "failed"
    /\ raised' = exc



(***************************************************************************)
(* Plotting cell: one action per statement of the cell.                    *)
(***************************************************************************)
PlotIdle ==
    /\ pc = "idle" /\ raised = "" /\ names = {} /\ json_files = <<>>
    /\ nrows = 0 /\ ncols = 0 /\ axShape = <<>> /\ ax = <<>> /\ i = 0
    /\ d = NoDict /\ img_fname = <<>> /\ b = "" /\ img = "unset"
    /\ rects = <<>> /\ j = 0 /\ this_ax = NoCell /\ shown = FALSE
    /\ fetched = <<>> /\ calls = <<>> /\ inputsValid = TRUE

ArgsIdle ==
    /\ argv = <<>> /\ AWS_CLI_OPTS = <<>> /\ ALL_FOR_AWS_CLI = 0 /\ WATCH = 1
    /\ NB_NAME = "" /\ exited = TRUE /\ consumed = <<>>

ModelIdle ==
    /\ mpc = "idle" /\ bound = {} /\ train_job = {}
    /\ deleteResult = [kind |-> "none", msg |-> <<>>]
    /\ mraised = "" /\ printed = FALSE /\ env = {} /\ mcalls = <<>>

\* The kernel before the cell runs. The cell imports s3fs, json, pyplot,
\* numpy and cv2; `os` is bound only if the kernel namespace already holds it.
InitPlot ==
    /\ pc = "ls" /\ raised = ""
    /\ names \in { {"s3fs", "json", "plt", "np", "cv2"},
                   {"s3fs", "json", "plt", "np", "cv2", "os"} }
    /\ json_files = <<>>
    /\ nrows = 0 /\ ncols = 0 /\ axShape = <<>> /\ ax = <<>> /\ i = 0
    /\ d = NoDict /\ img_fname = <<>> /\ b = "" /\ img = "unset"
    /\ rects = <<>> /\ j = 0 /\ this_ax = NoCell /\ shown = FALSE
    /\ fetched = <<>> /\ calls = <<>> /\ inputsValid = TRUE
    /\ ArgsIdle /\ ModelIdle

\* json_files = fs.ls(json_path)
ListFiles ==
    /\ pc = "ls"
    /\ \E n \in 0..MaxCount : json_files' = [k \in 1..n |-> k - 1]
    /\ calls' = Append(calls, Call("ls", -1))
    /\ pc' = "subplots"
    /\ UNCHANGED <<raised, names, nrows, ncols, axShape, ax, i, d, img_fname, b,
                   img, rects, j, this_ax, shown, fetched, inputsValid,
                   argVars, modelVars>>

\* nrows, ncols = (len(json_files)+1)//2, 2
\* _, ax = plt.subplots(nrows=nrows, ncols=ncols, figsize=(w,h))
\* With nrows = 0 the installed matplotlib either rejects the grid
\* (ValueError) or returns an empty array of axes.
Subplots ==
    /\ pc = "subplots"
    /\ nrows' = GridRows(Len(json_files))
    /\ ncols' = GridCols
    /\ calls' = Append(calls, Call("subplots", -1))
    /\ \/ /\ nrows' = 0
          /\ Raise("ValueError")
          /\ UNCHANGED <<axShape, ax>>
       \/ /\ axShape' = Squeeze(<<nrows', ncols'>>)
          /\ ax' = [c \in Cells(nrows', ncols') |-> BlankAxes]
          /\ pc' = IF Len(json_files) > 0 THEN "loads" ELSE "show"
          /\ UNCHANGED raised
    /\ i' = 0
    /\ UNCHANGED <<names, json_files, d, img_fname, b, img, rects, j, this_ax,
                   shown, fetched, inputsValid,
                   argVars, modelVars>>

\* Loads with the decoding error swallowed.
LoadsLenient ==
    /\ pc = "loads"
    /\ \E content \in JsonContents :
         /\ inputsValid' = (inputsValid /\ WellFormed(content))
         /\ d' = content /\ pc' = "join" /\ UNCHANGED raised
    /\ calls' = calls \o <<Call("cat_json", i), Call("loads", i)>>
    /\ UNCHANGED <<names, json_files, nrows, ncols, axShape, ax, i, img_fname, b,
                   img, rects, j, this_ax, shown, fetched,
                   argVars, modelVars>>

\* d = json.loads(fs.cat(json_fname))
Loads ==
    /\ pc = "loads"
    /\ \E content \in JsonContents :
         /\ inputsValid' = (inputsValid /\ WellFormed(content))
         /\ IF content = BadJson
            THEN Raise("JSONDecodeError") /\ UNCHANGED d
            ELSE d' = content /\ pc' = "join" /\ UNCHANGED raised
    /\ calls' = calls \o <<Call("cat_json", i), Call("loads", i)>>
    /\ UNCHANGED <<names, json_files, nrows, ncols, axShape, ax, i, img_fname, b,
                   img, rects, j, this_ax, shown, fetched,
                   argVars, modelVars>>

\* img_fname = os.path.join(img_path, d['file'])
Join ==
    /\ pc = "join"
    /\ IF "os" \notin names
       THEN Raise("NameError") /\ UNCHANGED <<img_fname, calls>>
       ELSE IF "file" \notin DOMAIN d
       THEN Raise("KeyError") /\ UNCHANGED <<img_fname, calls>>
       ELSE /\ img_fname' = PathJoin(img_path, d.file)
            /\ calls' = Append(calls, Call("join", i))
            /\ pc' = "cat"
            /\ UNCHANGED raised
    /\ UNCHANGED <<names, json_files, nrows, ncols, axShape, ax, i, d, b, img,
                   rects, j, this_ax, shown, fetched, inputsValid,
                   argVars, modelVars>>

\* Cat with a missing image skipped and the loop continued.
CatSkipping ==
    /\ pc = "cat"
    /\ fetched' = img_fname
    /\ calls' = Append(calls, Call("cat_img", i))
    /\ \/ /\ i' = i + 1
          /\ pc' = IF i + 1 < Len(json_files) THEN "loads" ELSE "show"
          /\ inputsValid' = FALSE
          /\ UNCHANGED <<b, raised>>
       \/ /\ \E bytes \in ImageBytes :
               /\ b' = bytes
               /\ inputsValid' = (inputsValid /\ bytes = "raster")
          /\ pc' = "imdecode"
          /\ UNCHANGED <<raised, i>>
    /\ UNCHANGED <<names, json_files, nrows, ncols, axShape, ax, d, img_fname,
                   img, rects, j, this_ax, shown, argVars, modelVars>>

\* b = bytes(fs.cat(img_fname))
Cat ==
    /\ pc = "cat"
    /\ fetched' = img_fname
    /\ calls' = Append(calls, Call("cat_img", i))
    /\ \/ /\ Raise("FileNotFoundError")
          /\ inputsValid' = FALSE
          /\ UNCHANGED b
       \/ /\ \E bytes \in ImageBytes :
               /\ b' = bytes
               /\ inputsValid' = (inputsValid /\ bytes = "raster")
          /\ pc' = "imdecode"
          /\ UNCHANGED raised
    /\ UNCHANGED <<names, json_files, nrows, ncols, axShape, ax, i, d, img_fname,
                   img, rects, j, this_ax, shown,
                   argVars, modelVars>>

\* arr = np.frombuffer(b, dtype=np.uint8); img = cv2.imdecode(arr, 1)
\* imdecode raises on an empty buffer, returns None for bytes that are no
\* image, and with flag 1 a 3-channel array for any raster image, colour
\* or grayscale.
Imdecode ==
    /\ pc = "imdecode"
    /\ calls' = Append(calls, Call("imdecode", i))
    /\ IF b = "empty"
       THEN Raise("cv2.error") /\ UNCHANGED <<img, rects>>
       ELSE /\ img' = IF b = "garbage" THEN "None" ELSE "bgr"
            /\ rects' = <<>>
            /\ pc' = "annotations"
            /\ UNCHANGED raised
    /\ UNCHANGED <<names, json_files, nrows, ncols, axShape, ax, i, d, img_fname,
                   b, j, this_ax, shown, fetched, inputsValid,
                   argVars, modelVars>>

\* Annotations with a missing key read as an empty list.
AnnotationsDefaulting ==
    /\ pc = "annotations"
    /\ j' = 1
    /\ pc' = IF "annotations" \in DOMAIN d /\ Len(d.annotations) > 0
             THEN "rectangle" ELSE "place"
    /\ UNCHANGED <<raised, names, json_files, nrows, ncols, axShape, ax, i, d,
                   img_fname, b, img, rects, this_ax, shown, fetched, calls,
                   inputsValid, argVars, modelVars>>

\* for bbox in d['annotations']:
Annotations ==
    /\ pc = "annotations"
    /\ IF "annotations" \notin DOMAIN d
       THEN Raise("KeyError") /\ UNCHANGED j
       ELSE /\ j' = 1
            /\ pc' = IF Len(d.annotations) > 0 THEN "rectangle" ELSE "place"
            /\ UNCHANGED raised
    /\ UNCHANGED <<names, json_files, nrows, ncols, axShape, ax, i, d, img_fname,
                   b, img, rects, this_ax, shown, fetched, calls, inputsValid,
                   argVars, modelVars>>

\* The body of the bbox loop: corners, colour, cv2.rectangle.
Rectangle ==
    /\ pc = "rectangle"
    /\ LET bbox == d.annotations[j]
           x_min == bbox.left
           y_min == bbox.top
           x_max == x_min + bbox.width
           y_max == y_min + bbox.height
           cid == bbox.class_id
           color == Color(cid)
       IN /\ IF img = "None"
             THEN Raise("cv2.error") /\ UNCHANGED <<rects, j>>
             ELSE /\ rects' = Append(rects, [class_id |-> cid, color |-> color,
                                              pt1 |-> <<x_min, y_min>>,
                                              pt2 |-> <<x_max, y_max>>,
                                              thickness |-> 2])
                  /\ j' = j + 1
                  /\ pc' = IF j < Len(d.annotations) THEN "rectangle" ELSE "place"
                  /\ UNCHANGED raised
    /\ UNCHANGED <<names, json_files, nrows, ncols, axShape, ax, i, d, img_fname,
                   b, img, this_ax, shown, fetched, calls, inputsValid,
                   argVars, modelVars>>

\* row, col = i//2, i%2 ; this_ax = ax[row][col]
\* A one-dimensional `ax` holds Axes objects, which cannot be subscripted.
Place ==
    /\ pc = "place"
    /\ IF Len(axShape) < 2
       THEN Raise("TypeError") /\ UNCHANGED this_ax
       ELSE IF CellOf(i) \notin DOMAIN ax
       THEN Raise("IndexError") /\ UNCHANGED this_ax
       ELSE /\ this_ax' = CellOf(i)
            /\ pc' = "set_title"
            /\ UNCHANGED raised
    /\ UNCHANGED <<names, json_files, nrows, ncols, axShape, ax, i, d, img_fname,
                   b, img, rects, j, shown, fetched, calls, inputsValid,
                   argVars, modelVars>>

\* this_ax.set_title(f'[img-{i:02}] {img_fname}')
SetTitle ==
    /\ pc = "set_title"
    /\ ax' = [ax EXCEPT ![this_ax].title = Title(i, img_fname)]
    /\ calls' = Append(calls, Call("set_title", i))
    /\ pc' = "imshow"
    /\ UNCHANGED <<raised, names, json_files, nrows, ncols, axShape, i, d,
                   img_fname, b, img, rects, j, this_ax, shown, fetched, inputsValid,
                   argVars, modelVars>>

\* this_ax.imshow(img), then the next iteration of the for loop.
\* The next iteration assigns d, img_fname, b, img and this_ax before it
\* reads them, and nothing after the loop reads them: the model forgets
\* their values at the end of the iteration.
Imshow ==
    /\ pc = "imshow"
    /\ calls' = Append(calls, Call("imshow", i))
    /\ IF img = "None"
       THEN /\ Raise("TypeError")
            /\ UNCHANGED <<ax, i, d, img_fname, b, img, rects, j, this_ax, fetched>>
       ELSE /\ ax' = [ax EXCEPT ![this_ax].image = i]
            /\ i' = i + 1
            /\ pc' = IF i + 1 < Len(json_files) THEN "loads" ELSE "show"
            /\ d' = NoDict /\ img_fname' = <<>> /\ b' = "" /\ img' = "unset"
            /\ rects' = <<>> /\ j' = 0 /\ this_ax' = NoCell /\ fetched' = <<>>
            /\ UNCHANGED raised
    /\ UNCHANGED <<names, json_files, nrows, ncols, axShape, shown, inputsValid,
                   argVars, modelVars>>

\* plt.show();
Show ==
    /\ pc = "show"
    /\ shown' = TRUE
    /\ calls' = Append(calls, Call("show", -1))
    /\ pc' = "done"
    /\ UNCHANGED <<raised, names, json_files, nrows, ncols, axShape, ax, i, d,
                   img_fname, b, img, rects, j, this_ax, fetched, inputsValid,
                   argVars, modelVars>>

NextPlot ==
    \/ ListFiles
    \/ Subplots
    \/ Loads
    \/ Join
    \/ Cat
    \/ Imdecode
    \/ Annotations
    \/ Rectangle
    \/ Place
    \/ SetTitle
    \/ Imshow
    \/ Show

Spec == InitPlot /\ [][NextPlot]_vars

(***************************************************************************)
(* smnb-start: parse_args.  The arguments are single words without blanks  *)
(* or glob characters, so the unquoted expansion ($key) adds exactly one   *)
(* element to an array.  One action per branch of the case statement, each *)
(* taken for the first pattern that matches "$1".                          *)
(***************************************************************************)
DashWords == {"-h", "--help", "-n", "--no-watch", "--", "--profile=x", "--region"}
PlainWords == {"nb", "us"}

ArgValues == DashWords \cup PlainWords

IsHelp(key) == key \in {"-h", "--help"}
IsNoWatch(key) == key \in {"-n", "--no-watch"}
IsSeparator(key) == key = "--"
\* the pattern -*
IsDash(key) == key \in DashWords

\* The elements ($key) adds to an array.
Expand(key) == <<key>>

InitArgs ==
    /\ argv \in SeqsUpTo(ArgValues, MaxArgs)
    /\ AWS_CLI_OPTS = <<>>
    /\ ALL_FOR_AWS_CLI = 0
    /\ WATCH = 1
    /\ NB_NAME = ""
    /\ exited = FALSE
    /\ consumed = <<>>
    /\ PlotIdle /\ ModelIdle

Shift ==
    /\ argv' = Tail(argv)
    /\ consumed' = Append(consumed, Head(argv))

\* -h|--help) echo ...; exit 0
CaseHelp ==
    /\ ~exited /\ Len(argv) > 0
    /\ IsHelp(Head(argv))
    /\ exited' = TRUE
    /\ UNCHANGED <<argv, consumed, AWS_CLI_OPTS, ALL_FOR_AWS_CLI, WATCH, NB_NAME,
                   plotVars, modelVars>>

\* -n|--no-watch) WATCH=0; shift
CaseNoWatch ==
    /\ ~exited /\ Len(argv) > 0
    /\ ~IsHelp(Head(argv))
    /\ IsNoWatch(Head(argv))
    /\ WATCH' = 0
    /\ Shift
    /\ UNCHANGED <<AWS_CLI_OPTS, ALL_FOR_AWS_CLI, NB_NAME, exited, plotVars, modelVars>>

\* --) ALL_FOR_AWS_CLI=1; shift
CaseSeparator ==
    /\ ~exited /\ Len(argv) > 0
    /\ ~IsHelp(Head(argv)) /\ ~IsNoWatch(Head(argv))
    /\ IsSeparator(Head(argv))
    /\ ALL_FOR_AWS_CLI' = 1
    /\ Shift
    /\ UNCHANGED <<AWS_CLI_OPTS, WATCH, NB_NAME, exited, plotVars, modelVars>>

\* -*) AWS_CLI_OPTS+=($key); shift
CaseDash ==
    /\ ~exited /\ Len(argv) > 0
    /\ ~IsHelp(Head(argv)) /\ ~IsNoWatch(Head(argv)) /\ ~IsSeparator(Head(argv))
    /\ IsDash(Head(argv))
    /\ AWS_CLI_OPTS' = AWS_CLI_OPTS \o Expand(Head(argv))
    /\ Shift
    /\ UNCHANGED <<ALL_FOR_AWS_CLI, WATCH, NB_NAME, exited, plotVars, modelVars>>

\* *) [[ ${ALL_FOR_AWS_CLI} > 0 ]] && AWS_CLI_OPTS+=($key) || NB_NAME=$key; shift
CaseOther ==
    /\ ~exited /\ Len(argv) > 0
    /\ ~IsHelp(Head(argv)) /\ ~IsNoWatch(Head(argv)) /\ ~IsSeparator(Head(argv))
    /\ ~IsDash(Head(argv))
    /\ IF ALL_FOR_AWS_CLI > 0
       THEN AWS_CLI_OPTS' = AWS_CLI_OPTS \o Expand(Head(argv)) /\ UNCHANGED NB_NAME
       ELSE NB_NAME' = Head(argv) /\ UNCHANGED AWS_CLI_OPTS
    /\ Shift
    /\ UNCHANGED <<ALL_FOR_AWS_CLI, WATCH, exited, plotVars, modelVars>>

NextArgs ==
    \/ CaseHelp
    \/ CaseNoWatch
    \/ CaseSeparator
    \/ CaseDash
    \/ CaseOther

SpecArgs == InitArgs /\ [][NextArgs]_vars

(***************************************************************************)
(* The "Create Model" cell.  An error message is the sequence of its words.*)
(***************************************************************************)
MsgWords == {"Could", "not", "find", "model", "denied"}
Messages == SeqsUpTo(MsgWords, MaxMsgLen)

\* 'Could not find model'
NotFoundText == <<"Could", "not", "find", "model">>

\* needle in text
Contains(text, needle) ==
    \E k \in 0..(Len(text) - Len(needle)) :
        \A n \in 1..Len(needle) : text[k + n] = needle[n]

\* What sm_client.delete_model can do: return, raise a ClientError with a
\* message, or raise an exception that is no ClientError.
DeleteResults ==
    { [kind |-> "ok", msg |-> <<>>], [kind |-> "EndpointConnectionError", msg |-> <<>>] }
      \cup { [kind |-> "ClientError", msg |-> m] : m \in Messages }

HyperParameterKeys == {"sagemaker_program", "sagemaker_submit_directory"}

NoResult == [kind |-> "none", msg |-> <<>>]

\* The kernel before the cell runs: the earlier cells bind sm_client, sm_role
\* and train_job_name; train_jobname and ClientError are bound only if the
\* kernel namespace already holds them.
InitModel ==
    /\ mpc = "describe"
    /\ \E extra \in SUBSET {"train_jobname", "ClientError"} :
           bound = {"sm_client", "sm_role", "train_job_name"} \cup extra
    /\ train_job = {}
    /\ deleteResult = NoResult
    /\ mraised = ""
    /\ printed = FALSE
    /\ env = {}
    /\ mcalls = <<>>
    /\ PlotIdle /\ ArgsIdle

MRaise(exc) ==
    /\ mpc' = "failed"
    /\ mraised' = exc

\* model_name = 'my_model'
\* train_job = sm_client.describe_training_job(TrainingJobName=train_jobname)
Describe ==
    /\ mpc = "describe"
    /\ IF "train_jobname" \notin bound
       THEN MRaise("NameError") /\ UNCHANGED <<train_job, mcalls>>
       ELSE /\ mcalls' = Append(mcalls, "describe_training_job")
            /\ \/ MRaise("ClientError") /\ UNCHANGED train_job
               \/ /\ train_job' \in SUBSET HyperParameterKeys
                  /\ mpc' = "delete"
                  /\ UNCHANGED mraised
    /\ UNCHANGED <<bound, deleteResult, printed, env, plotVars, argVars>>

\* try: response = sm_client.delete_model(ModelName=model_name)
\* except ClientError as e: ... else: print(...)
\* The except clause evaluates the name ClientError when an exception
\* reaches it.
DeleteModel ==
    /\ mpc = "delete"
    /\ mcalls' = Append(mcalls, "delete_model")
    /\ \E r \in DeleteResults :
         /\ deleteResult' = r
         /\ IF r.kind = "ok"
            THEN printed' = TRUE /\ mpc' = "env" /\ UNCHANGED mraised
            ELSE IF "ClientError" \notin bound
            THEN MRaise("NameError") /\ UNCHANGED printed
            ELSE IF r.kind # "ClientError"
            THEN MRaise(r.kind) /\ UNCHANGED printed
            ELSE IF Contains(r.msg, NotFoundText)
            THEN mpc' = "env" /\ UNCHANGED <<mraised, printed>>
            ELSE MRaise("ClientError") /\ UNCHANGED printed
    /\ UNCHANGED <<bound, train_job, env, plotVars, argVars>>

\* env = {}; if 'sagemaker_program' in train_job['HyperParameters']: ...
BuildEnv ==
    /\ mpc = "env"
    /\ IF "sagemaker_program" \notin train_job
       THEN env' = {} /\ mpc' = "create" /\ UNCHANGED mraised
       ELSE IF "sagemaker_submit_directory" \notin train_job
       THEN env' = {"SAGEMAKER_PROGRAM"} /\ MRaise("KeyError")
       ELSE /\ env' = {"SAGEMAKER_PROGRAM", "SAGEMAKER_SUBMIT_DIRECTORY",
                       "SAGEMAKER_CONTAINER_LOG_LEVEL",
                       "SAGEMAKER_ENABLE_CLOUDWATCH_METRICS"}
            /\ mpc' = "create"
            /\ UNCHANGED mraised
    /\ UNCHANGED <<bound, train_job, deleteResult, printed, mcalls, plotVars, argVars>>

\* response = sm_client.create_model(ModelName=model_name, ...)
CreateModel ==
    /\ mpc = "create"
    /\ mcalls' = Append(mcalls, "create_model")
    /\ \/ MRaise("ClientError")
       \/ mpc' = "done" /\ UNCHANGED mraised
    /\ UNCHANGED <<bound, train_job, deleteResult, printed, env, plotVars, argVars>>

NextModel ==
    \/ Describe
    \/ DeleteModel
    \/ BuildEnv
    \/ CreateModel

SpecModel == InitModel /\ [][NextModel]_vars

(***************************************************************************)
(* The plotting cell late in a long run: the state at the head of the loop *)
(* after n files, all valid, with empty box lists and named DefaultFile,   *)
(* have been plotted, one file being left.                                 *)
(***************************************************************************)
DefaultFile == <<"a", ".", "j", "p", "g">>

IterationCalls == <<"cat_json", "loads", "join", "cat_img", "imdecode", "set_title", "imshow">>

CallsAfter(n) ==
    [m \in 1..(2 + 7 * n) |->
        IF m = 1 THEN Call("ls", -1)
        ELSE IF m = 2 THEN Call("subplots", -1)
        ELSE Call(IterationCalls[((m - 3) % 7) + 1], (m - 3) \div 7)]

AxesAfter(n, rows) ==
    [c \in Cells(rows, GridCols) |->
        LET k == c[1] * GridCols + c[2]
        IN IF k < n /\ c = CellOf(k)
           THEN [title |-> Title(k, PathJoin(img_path, DefaultFile)), image |-> k]
           ELSE BlankAxes]

MidRun(n) ==
    /\ pc = "loads" /\ raised = ""
    /\ names = {"s3fs", "json", "plt", "np", "cv2", "os"}
    /\ json_files = [k \in 1..(n + 1) |-> k - 1]
    /\ nrows = GridRows(n + 1) /\ ncols = GridCols
    /\ axShape = Squeeze(<<nrows, ncols>>)
    /\ ax = AxesAfter(n, nrows)
    /\ i = n
    /\ d = NoDict /\ img_fname = <<>> /\ b = "" /\ img = "unset"
    /\ rects = <<>> /\ j = 0 /\ this_ax = NoCell /\ shown = FALSE
    /\ fetched = <<>> /\ calls = CallsAfter(n) /\ inputsValid = TRUE

LateIndexes == {9, 10, MaxIndex - 1, MaxIndex}

InitLate ==
    \/ InitPlot
    \/ /\ \E n \in LateIndexes : MidRun(n)
       /\ ArgsIdle /\ ModelIdle

SpecLate == InitLate /\ [][NextPlot]_vars

\* MidRun is a state of the cell: the one for n = 4 is reached from InitPlot.
MidRunReached == MidRun(4)

(***************************************************************************)
(* Properties.                                                             *)
(***************************************************************************)
Count == Len(json_files)

Called(op, n) == \E k \in DOMAIN calls : calls[k].op = op /\ calls[k].idx = n

Ceil(a, c) == (a + c - 1) \div c

GridCreated == pc \notin {"idle", "ls", "subplots"} /\ ~(pc = "failed" /\ raised = "ValueError")

\* C1: every rectangle drawn for a box of class c has a colour whose channel
\* c mod 3 is 255 and whose two other channels are 0; two boxes whose class
\* ids differ by a multiple of 3 are drawn in the same colour.
C1_ColourByClassId ==
    /\ \A k \in DOMAIN rects :
         LET r == rects[k]
             ch == r.class_id - 3 * (r.class_id \div 3)
         IN /\ DOMAIN r.color = 0..2
            /\ r.color[ch] = 255
            /\ \A c \in (0..2) \ {ch} : r.color[c] = 0
            /\ r.class_id \in {0, 3} => r.color[0] = 255
            /\ r.class_id \in {1, 4} => r.color[1] = 255
            /\ r.class_id \in {2, 5} => r.color[2] = 255
    /\ \A k, l \in DOMAIN rects :
         (\E m \in 0..MaxClassId : rects[k].class_id = rects[l].class_id + 3 * m)
            => rects[k].color = rects[l].color

C1_Witness ==
    /\ Len(rects) = 2
    /\ rects[1].class_id = 1
    /\ rects[2].class_id = 4

\* C2 (as claimed): for every positive number of columns asked for, the grid
\* has that many columns and ceil(count / columns) rows.
C2_Original ==
    GridCreated =>
        \A columns \in 1..MaxColumns :
            ncols = columns /\ nrows = Ceil(Count, columns)

\* C2 (amended): a grid that plt.subplots creates has exactly 2 columns and
\* ceil(count / 2) rows, one axes per cell; 5 files give 3 rows.
C2_GridDimensions ==
    GridCreated =>
        /\ ncols = 2
        /\ 2 * nrows >= Count
        /\ 2 * (nrows - 1) < Count
        /\ DOMAIN ax = Cells(nrows, 2)
        /\ Cardinality(DOMAIN ax) = 2 * nrows
        /\ Count = 5 => nrows = 3

C2_Witness == GridCreated /\ Count = 5 /\ nrows = 3 /\ ncols = 2 /\ pc = "loads"

Filled(cell) == ax[cell].image # NoImage

\* C3 (as claimed): for every number of columns asked for, the file at index
\* k is shown in cell (k div columns, k mod columns).
C3_Original ==
    \A columns \in 1..MaxColumns :
        \A cell \in DOMAIN ax :
            Filled(cell) =>
                cell = <<ax[cell].image \div columns, ax[cell].image % columns>>

\* C3 (amended): the file at index k is shown in cell (k div 2, k mod 2),
\* which lies inside the grid; every file plotted so far still has its own
\* cell; when the run has finished exactly the cells whose row-major index
\* is >= count are empty.
C3_CellPlacement ==
    /\ \A cell \in DOMAIN ax :
         Filled(cell) =>
            /\ cell = <<ax[cell].image \div 2, ax[cell].image % 2>>
            /\ ax[cell].image < Count
    /\ this_ax # NoCell =>
         /\ this_ax \in DOMAIN ax
         /\ this_ax = <<i \div 2, i % 2>>
    /\ GridCreated =>
         \A k \in 0..(i - 1) :
            /\ <<k \div 2, k % 2>> \in DOMAIN ax
            /\ ax[<<k \div 2, k % 2>>].image = k
    /\ pc = "done" =>
         \A cell \in DOMAIN ax : Filled(cell) <=> (2 * cell[1] + cell[2] < Count)

C3_Witness ==
    /\ pc = "done" /\ Count = 5
    /\ ax[<<2, 0>>].image = 4
    /\ ax[<<2, 1>>] = BlankAxes
    /\ {c \in DOMAIN ax : ~Filled(c)} = { <<2, 1>> }

\* C4: a run over annotation files and images that are all well formed does
\* not fail, and when it has ended it has shown one grid that holds every
\* file's image in a captioned cell of its own.
C4_ValidRunsRender ==
    /\ pc = "failed" => ~inputsValid
    /\ (pc = "done" /\ inputsValid) =>
          /\ shown
          /\ \A k \in 0..(Count - 1) :
               \E cell \in DOMAIN ax : ax[cell].image = k /\ ax[cell].title # <<>>

\* C5: files are processed one at a time in enumeration order: after the
\* two calls that list the files and create the grid, the calls made are
\* the complete call sequence of file 0, then of file 1, ... up to file i-1
\* (each of which sits in its cell), followed by a beginning of the call
\* sequence of the current file i; nothing has been done for a later file;
\* a run that failed at file i has not shown the grid and shows it never.
C5_SequentialAbortOnFirstFailure ==
    /\ \A k \in DOMAIN calls : calls[k].idx <= i
    /\ GridCreated =>
         /\ Len(calls) >= 2 + 7 * i
         /\ \A n \in 0..(i - 1) :
              /\ \A m \in 1..7 :
                   calls[2 + 7 * n + m] = [op |-> IterationCalls[m], idx |-> n]
              /\ ax[<<n \div 2, n % 2>>].image = n
         /\ LET rest == Len(calls) - (2 + 7 * i)
                last == IF shown THEN rest - 1 ELSE rest
            IN /\ last <= 7
               /\ \A m \in 1..last :
                    calls[2 + 7 * i + m] = [op |-> IterationCalls[m], idx |-> i]
    /\ pc = "failed" =>
         /\ ~shown
         /\ ~Called("show", -1)
         /\ raised # ""
         /\ GridCreated => i < Count
    /\ shown => (pc = "done" /\ i = Count /\ raised = ""
                    /\ calls[Len(calls)] = [op |-> "show", idx |-> -1])

C5_Witness ==
    /\ pc = "failed" /\ raised = "FileNotFoundError"
    /\ i = 2 /\ Count = 5
    /\ ax[<<0, 1>>].image = 1

\* C6: a file whose text is no valid JSON ends the run with the decoding
\* error and is never handed on: no path is resolved and no image is
\* fetched for it; whenever an image has been fetched for a file, that file
\* was parsed before.
C6_ParseBeforeFetch ==
    /\ d # BadJson
    /\ raised = "JSONDecodeError" =>
         /\ pc = "failed"
         /\ Called("loads", i)
         /\ ~Called("join", i)
         /\ ~Called("cat_img", i)
         /\ fetched = <<>>
    /\ \A k \in DOMAIN calls :
         calls[k].op = "cat_img" =>
            /\ k > 2
            /\ calls[k - 2] = [op |-> "loads", idx |-> calls[k].idx]
            /\ calls[k - 1] = [op |-> "join", idx |-> calls[k].idx]

C6_Witness ==
    /\ pc = "failed" /\ raised = "JSONDecodeError"
    /\ i = 1 /\ Called("cat_img", 0) /\ Called("loads", 1)

LacksFile == d # NoDict /\ "file" \notin DOMAIN d
LacksAnnotations == d # NoDict /\ "annotations" \notin DOMAIN d

\* C7 (as claimed): a record without `file` or without `annotations` is
\* rejected before the image path is resolved, the image fetched or decoded.
C7_Original ==
    (LacksFile \/ LacksAnnotations) =>
        /\ ~Called("join", i)
        /\ ~Called("cat_img", i)
        /\ ~Called("imdecode", i)

\* C7 (amended): a record without `file` ends the run where the path is
\* resolved, before any fetch or decode; a record with `file` but without
\* `annotations` has its path resolved and its image fetched and decoded,
\* and ends the run with KeyError only where the boxes are read, before
\* any rectangle is drawn, any cell chosen or any caption set.
C7_MissingFields ==
    /\ LacksFile =>
         /\ pc \in {"join", "failed"}
         /\ pc = "failed" => raised \in {"KeyError", "NameError"}
         /\ ~Called("join", i) /\ ~Called("cat_img", i) /\ ~Called("imdecode", i)
    /\ (LacksAnnotations /\ ~LacksFile) =>
         /\ pc \in {"join", "cat", "imdecode", "annotations", "failed"}
         /\ rects = <<>> /\ this_ax = NoCell
         /\ ~Called("set_title", i) /\ ~Called("imshow", i)
         /\ raised = "KeyError" =>
               Called("join", i) /\ Called("cat_img", i) /\ Called("imdecode", i)
         /\ pc = "failed" =>
               raised \in {"NameError", "FileNotFoundError", "cv2.error", "KeyError"}

C7_Witness ==
    /\ pc = "failed" /\ raised = "KeyError"
    /\ LacksAnnotations /\ ~LacksFile
    /\ Called("cat_img", i) /\ Called("imdecode", i)

Digits == {"0", "1", "2", "3", "4", "5", "6", "7", "8", "9"}

DigitValue(c) == CHOOSE v \in 0..9 : DigitChar(v) = c

RECURSIVE ParseDecimal(_)
ParseDecimal(s) ==
    IF Len(s) = 0 THEN 0
    ELSE 10 * ParseDecimal(SubSeq(s, 1, Len(s) - 1)) + DigitValue(s[Len(s)])

\* The caption [img-NN] P, NN being the decimal digits of n, with one
\* leading zero when n < 10 and no digit dropped.
IsCaption(title, n, path) ==
    LET width == IF n < 100 THEN 2 ELSE IF n < 1000 THEN 3 ELSE 4
        nn == SubSeq(title, 6, 5 + width)
    IN /\ Len(title) = 5 + width + 2 + Len(path)
       /\ SubSeq(title, 1, 5) = <<"[", "i", "m", "g", "-">>
       /\ \A k \in DOMAIN nn : nn[k] \in Digits
       /\ ParseDecimal(nn) = n
       /\ SubSeq(title, 6 + width, 7 + width) = <<"]", " ">>
       /\ SubSeq(title, 8 + width, Len(title)) = path

\* C8: the caption set for the file at index i is `[img-NN] P`, NN being i
\* in decimal padded with zeros to two digits and never truncated, and P the
\* path that was resolved from img_path and the record's `file` and that
\* the image was fetched from; the captions of the cells filled before keep
\* that form.
C8_Caption ==
    /\ pc = "imshow" =>
         /\ IsCaption(ax[this_ax].title, i, fetched)
         /\ fetched = img_fname
         /\ fetched = (IF d.file[1] = "/" THEN d.file ELSE img_path \o d.file)
         /\ i = 2 => SubSeq(ax[this_ax].title, 1, 9)
                        = <<"[", "i", "m", "g", "-", "0", "2", "]", " ">>
    /\ \A cell \in DOMAIN ax :
         Filled(cell) =>
            \E f \in FileNames :
               IsCaption(ax[cell].title, ax[cell].image, PathJoin(img_path, f))

C8_Witness ==
    /\ pc = "imshow" /\ i = 100
    /\ SubSeq(ax[this_ax].title, 1, 10)
          = <<"[", "i", "m", "g", "-", "1", "0", "0", "]", " ">>
    /\ fetched = <<"/", "x", ".", "p", "n", "g">>

\* C9: an argument that follows `--` is appended to the AWS CLI options and
\* does nothing else (NB_NAME and WATCH keep their values, the parser does
\* not exit); before `--` an argument that starts with `-` and is none of
\* -h, --help, -n, --no-watch is appended to the options and any other
\* argument that does not start with `-` sets NB_NAME.
C9_SeparatorPassesEverythingOn ==
    [][ (~exited /\ Len(argv) > 0) =>
          LET key == Head(argv)
          IN /\ ALL_FOR_AWS_CLI = 1 =>
                  /\ AWS_CLI_OPTS' = Append(AWS_CLI_OPTS, key)
                  /\ NB_NAME' = NB_NAME
                  /\ WATCH' = WATCH
                  /\ ~exited'
             /\ (ALL_FOR_AWS_CLI = 0 /\ IsDash(key) /\ ~IsHelp(key)
                   /\ ~IsNoWatch(key) /\ ~IsSeparator(key)) =>
                  AWS_CLI_OPTS' = Append(AWS_CLI_OPTS, key)
             /\ (ALL_FOR_AWS_CLI = 0 /\ ~IsDash(key)) => NB_NAME' = key
      ]_vars

\* C10: create_model is called only after delete_model returned or raised a
\* ClientError whose message contains 'Could not find model'; after any
\* other delete_model error the cell ends with that error raised again and
\* create_model is not called; the deletion message is printed only when
\* delete_model returned.
C10_CreateOnlyAfterDelete ==
    LET created == \E k \in DOMAIN mcalls : mcalls[k] = "create_model"
        notFound == /\ deleteResult.kind = "ClientError"
                    /\ \E k \in 1..(Len(deleteResult.msg) - 3) :
                          SubSeq(deleteResult.msg, k, k + 3) = NotFoundText
    IN /\ created =>
            /\ \E k, l \in DOMAIN mcalls :
                  k < l /\ mcalls[k] = "delete_model" /\ mcalls[l] = "create_model"
            /\ deleteResult.kind = "ok" \/ notFound
       /\ (deleteResult.kind \notin {"none", "ok"} /\ ~notFound) =>
            /\ mpc = "failed"
            /\ mraised = deleteResult.kind
            /\ ~created
       /\ printed => deleteResult.kind = "ok"

=============================================================================
